---- MODULE Spec2Model ----
(***************************************************************************)
(* athena: one run of the archive pipeline of src/main.rs                  *)
(*   validate::input -> validate::output -> process_input ->               *)
(*   construct_archive (name, create, append loop, finish,                 *)
(*   validate::archive, return) -> print_done.                             *)
(* Paths are sequences of components.  The input tree is a function from   *)
(* paths to the kind lstat reports; the output directory is a separate     *)
(* location holding the candidate archive name and its suffixed variants.  *)
(***************************************************************************)
EXTENDS Integers, Sequences, FiniteSets, TLC

\* ------------------------------------------------------------- bounds
MaxNodes == 2      \* nodes below the input root
MaxDepth == 2      \* components below the input root
MaxLines == 2      \* lines on stdin before end-of-input
MaxSuffix == 1     \* X, X_1 .. X_MaxSuffix may already exist in the output dir
FileLen == 10      \* byte length of every regular file

\* ------------------------------------------------------ exit statuses
ExitOk == 0
ExitFail == 1
ExitPanic == 101

VARIABLES
    fs,          \* input side: path -> lstat kind
    inPath,      \* args.src
    rev,         \* read_dir order of this filesystem
    compress,    \* args.compress
    outKind,     \* args.dest: "dir" | "file" | "absent"
    outParent,   \* does the parent of args.dest exist
    outFiles,    \* output dir: suffix n -> "none" | "old" | "arch"
    pc,          \* position of main / construct_archive
    exitCode,    \* process exit status, Running while alive
    diag,        \* lines written to stderr
    prompts,     \* prompts shown to the user
    createAns,   \* line read by validate::output, <<"-">> when none was read
    overAns,     \* what prompt_user returned: "none" | "yes" | "no"
    files,       \* Vec<PathBuf> returned by process_input
    idx,         \* entries of files already appended
    entries,     \* entries appended to the tar builder
    contentRead, \* paths whose content was opened and copied
    archLen,     \* bytes of file_path on disk
    archLead,    \* first two bytes of file_path on disk
    gzPending,   \* the gzip encoder holds data not yet written to the file
    streamOpen,  \* the tar builder / encoder / file handle is alive
    trailers,    \* times the tar trailer was written
    built,       \* archive.finish() returned
    valid,       \* result of validate::archive: "none" | "ok" | "err"
    handled,     \* paths the append loop has taken up
    summary,     \* print_done wrote the "Successfully wrote" line
    lenAtValidate,   \* archLen when validate::archive ran, -1 before
    pendingAtValidate, \* gzPending when validate::archive ran
    target,      \* suffix of the name file_path was created under, -1 before
    pre,         \* the output side at start: [kind, files]
    interrupted  \* handle_term ran

vars == <<fs, inPath, rev, compress, outKind, outParent, outFiles, pc, exitCode,
          diag, prompts, createAns, overAns, files, idx, entries, contentRead,
          archLen, archLead, gzPending, streamOpen, trailers, built, valid,
          handled, summary, lenAtValidate, pendingAtValidate, target, pre,
          interrupted>>

\* --------------------------------------------------------- filesystem
Names == {"a", "b"}
TargetChild == "t"                 \* the one file inside a symlinked directory
NameOrder == <<"a", "b", "t">>
Kinds == {"file", "dir", "xdir", "sl_file", "sl_dir", "sl_none"}
RootPaths == {<<"r">>, <<".">>}

Parent(p) == SubSeq(p, 1, Len(p) - 1)
Last(p) == p[Len(p)]

\* symlink_metadata(): the kind of the path itself
Lstat(p) ==
    IF p \in DOMAIN fs THEN fs[p]
    ELSE IF /\ Len(p) > 1
            /\ Parent(p) \in DOMAIN fs
            /\ fs[Parent(p)] = "sl_dir"
            /\ Last(p) = TargetChild
         THEN "file"
         ELSE "absent"

\* metadata(): the kind after following a symlink
Stat(p) ==
    LET k == Lstat(p) IN
    CASE k = "sl_file" -> "file"
      [] k = "sl_dir" -> "dir"
      [] k = "sl_none" -> "absent"
      [] OTHER -> k

IsFile(p) == Stat(p) = "file"
IsDir(p) == Stat(p) \in {"dir", "xdir"}
IsSymlink(p) == Lstat(p) \in {"sl_file", "sl_dir", "sl_none"}

\* read_link(): the raw target string
ReadLink(p) ==
    CASE Lstat(p) = "sl_file" -> "tf"
      [] Lstat(p) = "sl_dir" -> "td"
      [] OTHER -> "gone"

\* Path::exists() that forgets to follow the link
ExistsNoFollow(p) == Lstat(p) # "absent"
Exists(p) == Stat(p) # "absent"

\* Path::file_name(): None (here "") unless the last component is a normal one
FileName(p) == IF p = <<>> \/ Last(p) \in {".", ".."} THEN "" ELSE Last(p)

Reverse(s) == [i \in 1..Len(s) |-> s[Len(s) + 1 - i]]

\* fs::read_dir(p): the children of p in this filesystem's order
ReadDirOk(p) == Stat(p) = "dir"
Present(p, n) == Lstat(p \o <<n>>) # "absent"
ReadDir(p) ==
    LET ord == IF rev THEN Reverse(NameOrder) ELSE NameOrder
        keep == {i \in 1..Len(ord) : Present(p, ord[i])}
        RECURSIVE pick(_)
        pick(i) == IF i > Len(ord) THEN <<>>
                   ELSE IF i \in keep THEN <<ord[i]>> \o pick(i + 1)
                   ELSE pick(i + 1)
    IN pick(1)

\* the input trees of the model: a directory root with at most n nodes below
\* it, none deeper than MaxDepth
Extensions(t, root) ==
    { (q \o <<nm>> :> k) @@ t :
        q \in {d \in DOMAIN t : t[d] = "dir" /\ Len(d) < Len(root) + MaxDepth},
        nm \in Names, k \in Kinds }

RECURSIVE TreesUpTo(_, _)
TreesUpTo(root, n) ==
    IF n = 0 THEN {(root :> "dir")}
    ELSE LET prev == TreesUpTo(root, n - 1) IN
         prev \cup UNION { {u \in Extensions(t, root) : Cardinality(DOMAIN u) = n + 1} :
                           t \in prev }

\* what args.src may name: nothing, a non-directory, or a directory tree
InputCases ==
    {[fs |-> <<>>, inPath |-> <<"r">>]}
    \cup {[fs |-> (<<"r">> :> k), inPath |-> <<"r">>] : k \in Kinds \ {"dir"}}
    \cup UNION { {[fs |-> t, inPath |-> root] : t \in TreesUpTo(root, MaxNodes)} :
                 root \in RootPaths }

\* --------------------------------------------------------------- stdin
\* a line as read_line leaves it in the buffer; <<>> is end of input
Lines ==
    { <<"y", "\n">>, <<"Y", "\n">>, <<" ", "y", "\n">>, <<"y", "e", "s", "\n">>,
      <<"n", "\n">>, <<"n", "o", "\n">>, <<"\n">>, <<"x", "\n">>, <<>> }
NoLine == <<"-">>

StdinUpTo(n) == UNION {[1..k -> Lines \ {<<>>}] : k \in 0..n}

IsSpace(c) == c \in {" ", "\n", "\t"}
Lower(c) ==
    CASE c = "Y" -> "y"
      [] c = "E" -> "e"
      [] c = "S" -> "s"
      [] c = "N" -> "n"
      [] c = "O" -> "o"
      [] OTHER -> c

RECURSIVE TrimStart(_)
TrimStart(s) == IF s # <<>> /\ IsSpace(Head(s)) THEN TrimStart(Tail(s)) ELSE s
RECURSIVE TrimEnd(_)
TrimEnd(s) ==
    IF s # <<>> /\ IsSpace(s[Len(s)]) THEN TrimEnd(SubSeq(s, 1, Len(s) - 1)) ELSE s

\* input.trim().to_lowercase()
TrimLower(s) == LET t == TrimEnd(TrimStart(s)) IN [i \in 1..Len(t) |-> Lower(t[i])]

\* utils::prompt_user: read lines until one is y/yes/n/no or empty; an empty
\* line and end of input take the default
RECURSIVE PromptUser(_, _)
PromptUser(stdin, default) ==
    LET line == IF stdin = <<>> THEN <<>> ELSE Head(stdin)
        a == TrimLower(line)
    IN CASE a \in {<<"y">>, <<"y", "e", "s">>} -> TRUE
         [] a \in {<<"n">>, <<"n", "o">>} -> FALSE
         [] a = <<>> -> default
         [] OTHER -> PromptUser(Tail(stdin), default)

\* an empty answer taken as consent
SaysCreateByDefault(line) == TrimLower(line) \in {<<"y">>, <<>>}
\* validate::output accepts the answer only when it is exactly "y"
SaysCreate(line) == TrimLower(line) = <<"y">>

\* ------------------------------------------------------------ walker
\* process_input without the is_symlink test: a linked directory is walked
RECURSIVE ProcessInputFollow(_)
ProcessInputFollow(p) ==
    IF IsFile(p) THEN [ok |-> TRUE, files |-> <<p>>]
    ELSE IF ~ReadDirOk(p) THEN [ok |-> FALSE, files |-> <<>>]
    ELSE LET names == ReadDir(p)
             RECURSIVE loop(_, _)
             loop(i, acc) ==
                 IF i > Len(names) THEN [ok |-> TRUE, files |-> acc]
                 ELSE LET path == p \o <<names[i]>> IN
                      IF IsDir(path)
                      THEN LET sub == ProcessInputFollow(path) IN
                           IF sub.ok THEN loop(i + 1, acc \o sub.files)
                           ELSE [ok |-> FALSE, files |-> <<>>]
                      ELSE loop(i + 1, Append(acc, path))
         IN loop(1, <<>>)

\* process_input: [ok, files]; a read_dir error aborts the whole walk
RECURSIVE ProcessInput(_)
ProcessInput(p) ==
    IF IsSymlink(p) \/ IsFile(p) THEN [ok |-> TRUE, files |-> <<p>>]
    ELSE IF ~ReadDirOk(p) THEN [ok |-> FALSE, files |-> <<>>]
    ELSE LET names == ReadDir(p)
             RECURSIVE loop(_, _)
             loop(i, acc) ==
                 IF i > Len(names) THEN [ok |-> TRUE, files |-> acc]
                 ELSE LET path == p \o <<names[i]>> IN
                      IF IsDir(path)
                      THEN LET sub == ProcessInput(path) IN
                           IF sub.ok THEN loop(i + 1, acc \o sub.files)
                           ELSE [ok |-> FALSE, files |-> <<>>]
                      ELSE loop(i + 1, Append(acc, path))
         IN loop(1, <<>>)

\* ----------------------------------------------------------- builder
\* get_inp_path_only: the parent of a file input, else the input itself
GetInpPathOnly(p) == IF IsFile(p) THEN Parent(p) ELSE p

IsPrefix(pre_, p) == Len(pre_) <= Len(p) /\ SubSeq(p, 1, Len(pre_)) = pre_
\* Path::strip_prefix
StripPrefix(p, pre_) == SubSeq(p, Len(pre_) + 1, Len(p))

\* bytes of the names the model uses
Byte(c) ==
    CASE c = "a" -> 97
      [] c = "b" -> 98
      [] c = "r" -> 114
      [] c = "t" -> 116
      [] c = "." -> 46
      [] OTHER -> 63
\* the first two bytes of a tar header: the start of the entry's path, NUL padded
LeadBytes(rel) ==
    IF Len(rel) = 1 THEN <<Byte(rel[1]), 0>> ELSE <<Byte(rel[1]), 47>>
GzMagic == <<31, 139>>

\* bytes one entry adds to the tar stream: a header block and padded content
EntryBytes(size) == 512 + ((size + 511) \div 512) * 512

\* the entry the per-entry policy of construct_archive appends for a path
EntryFor(path, rel) ==
    IF IsSymlink(path)
    THEN [path |-> rel, type |-> "symlink", size |-> 0, link |-> ReadLink(path)]
    ELSE IF Lstat(path) = "file"
    THEN [path |-> rel, type |-> "regular", size |-> FileLen, link |-> ""]
    ELSE [path |-> rel, type |-> "directory", size |-> 0, link |-> ""]

\* tar refuses an entry path with no component
AppendFails(path, rel) == rel = <<>>

\* file_owner's owner()/group() are unwrapped; whether they follow a symlink
\* is the library's choice, so a dangling link may or may not panic here
OwnerOutcomes(path) ==
    IF IsSymlink(path) /\ ~Exists(path) THEN {TRUE, FALSE} ELSE {TRUE}

\* The stream under the tar builder.  A plain File takes every byte at once.
\* The gzip encoder puts its 10-byte header in the file on the first write and
\* keeps the deflate stream and the 8-byte trailer until it is finished, which
\* happens when it is dropped.
AfterWrite(len, n) == IF compress THEN (IF len = 0 THEN 10 ELSE len) ELSE len + n
AfterGzFinish(len) == IF compress THEN len + 18 + Len(entries) ELSE len
LeadAfter(len, old, lead) ==
    IF len # 0 THEN old ELSE IF compress THEN GzMagic ELSE lead

\* file_path = output_path.join(&file_name): the candidate name itself
CandidateSuffix == 0

\* an exists() test that is never true: the builder truncates silently
CandidateNeverExists == FALSE
\* file_path.exists(), line 203
CandidateExists == outKind = "dir" /\ outFiles[CandidateSuffix] # "none"

OutExists == outKind # "absent"
OutIsFile == outKind = "file"

\* ------------------------------------------------------------ state
OutputCases ==
    {[kind |-> "dir", parent |-> TRUE, files |-> f] :
        f \in [0..MaxSuffix -> {"none", "old"}]}
    \cup {[kind |-> "file", parent |-> TRUE, files |-> [n \in 0..MaxSuffix |-> "none"]]}
    \cup {[kind |-> "absent", parent |-> b, files |-> [n \in 0..MaxSuffix |-> "none"]] :
            b \in BOOLEAN}

inVars == <<fs, inPath, rev, compress, pre>>
outVars == <<outKind, outParent, outFiles>>
uiVars == <<prompts, createAns, overAns>>
loopVars == <<files, idx, entries, contentRead, handled>>
archVars == <<archLen, archLead, gzPending, streamOpen, trailers, built, target>>
valVars == <<valid, lenAtValidate, pendingAtValidate>>

Init ==
    \E c \in InputCases, o \in OutputCases :
        /\ fs = c.fs
        /\ inPath = c.inPath
        /\ rev \in BOOLEAN
        /\ compress \in BOOLEAN
        /\ outKind = o.kind
        /\ outParent = o.parent
        /\ outFiles = o.files
        /\ pre = [kind |-> o.kind, files |-> o.files]
        /\ pc = "validate_input"
        /\ exitCode = -1
        /\ diag = {}
        /\ prompts = {}
        /\ createAns = NoLine
        /\ overAns = "none"
        /\ files = <<>>
        /\ idx = 0
        /\ entries = <<>>
        /\ contentRead = {}
        /\ handled = {}
        /\ archLen = 0
        /\ archLead = <<>>
        /\ gzPending = FALSE
        /\ streamOpen = FALSE
        /\ trailers = 0
        /\ built = FALSE
        /\ target = -1
        /\ valid = "none"
        /\ lenAtValidate = -1
        /\ pendingAtValidate = FALSE
        /\ summary = FALSE
        /\ interrupted = FALSE

\* eprintln!("Error: {}", e); process::exit(code); diag keeps e.  A panic ends
\* the process with status 101.
Exit(code, msg) ==
    /\ pc' = "exited"
    /\ exitCode' = code
    /\ diag' = diag \cup {msg}

\* an error or panic inside the append loop unwinds construct_archive: the tar
\* builder's drop writes the trailer, the encoder's drop finishes the stream
DropUnfinished ==
    /\ archLen' = AfterGzFinish(AfterWrite(archLen, 1024))
    /\ archLead' = LeadAfter(archLen, archLead, <<0, 0>>)
    /\ trailers' = trailers + 1
    /\ gzPending' = FALSE
    /\ streamOpen' = FALSE
    /\ UNCHANGED <<built, target>>

\* ---------------------------------------------------------- actions
\* main, lines 39-45: validate::input
ValidateInput ==
    /\ pc = "validate_input"
    /\ IF ~Exists(inPath)
       THEN Exit(ExitFail, "Specified file or directory does not exist")
       ELSE /\ pc' = "validate_output"
            /\ UNCHANGED <<exitCode, diag>>
    /\ UNCHANGED <<inVars, outVars, uiVars, loopVars, archVars, valVars, summary,
                   interrupted>>

\* main, lines 46-52: validate::output
ValidateOutput ==
    /\ pc = "validate_output"
    /\ LET asks == ~OutExists /\ ~(OutIsFile /\ outParent) IN
       \E line \in (IF asks THEN Lines ELSE {NoLine}) :
          /\ createAns' = line
          /\ prompts' = IF asks THEN prompts \cup {"create"} ELSE prompts
          /\ IF ~asks
             THEN /\ pc' = "walk"
                  /\ UNCHANGED <<exitCode, diag, outKind>>
             ELSE IF ~SaysCreate(line)
             THEN /\ Exit(ExitFail, "Output directory does not exist")
                  /\ UNCHANGED outKind
             ELSE IF outParent
             THEN /\ outKind' = "dir"
                  /\ pc' = "walk"
                  /\ UNCHANGED <<exitCode, diag>>
             ELSE /\ Exit(ExitPanic, "panic: create_dir")
                  /\ UNCHANGED outKind
    /\ UNCHANGED <<inVars, outParent, outFiles, overAns, loopVars, archVars, valVars,
                   summary, interrupted>>

\* main, lines 72-78 and 116-119: process_input
Walk ==
    /\ pc = "walk"
    /\ LET res == ProcessInput(inPath) IN
       IF res.ok
       THEN /\ files' = res.files
            /\ pc' = "name"
            /\ UNCHANGED <<exitCode, diag>>
       ELSE /\ Exit(ExitFail, "read_dir failed")
            /\ UNCHANGED files
    /\ UNCHANGED <<inVars, outVars, uiVars, idx, entries, contentRead, handled,
                   archVars, valVars, summary, interrupted>>

\* construct_archive, lines 190-216: name, overwrite prompt, File::create
NameCreate ==
    /\ pc = "name"
    /\ LET base == IF OutIsFile THEN "out" ELSE FileName(inPath)
           noName == base = ""
           asks == ~noName /\ CandidateExists
       IN
       \E stdin \in (IF asks THEN StdinUpTo(MaxLines) ELSE {<<>>}) :
          LET overwrite == PromptUser(stdin, FALSE) IN
          /\ prompts' = IF asks THEN prompts \cup {"overwrite"} ELSE prompts
          /\ overAns' = IF ~asks THEN overAns ELSE IF overwrite THEN "yes" ELSE "no"
          /\ IF noName
             THEN /\ Exit(ExitPanic, "panic: file_name")
                  /\ UNCHANGED <<outFiles, archVars>>
             ELSE IF asks /\ ~overwrite
             THEN /\ Exit(ExitOk, "File already exists")
                  /\ UNCHANGED <<outFiles, archVars>>
             ELSE IF outKind # "dir"
             THEN /\ Exit(ExitPanic, "panic: File::create")
                  /\ UNCHANGED <<outFiles, archVars>>
             ELSE /\ outFiles' = [outFiles EXCEPT ![CandidateSuffix] = "arch"]
                  /\ target' = CandidateSuffix
                  /\ archLen' = 0
                  /\ archLead' = <<>>
                  /\ streamOpen' = TRUE
                  /\ pc' = IF files = <<>> THEN "finish" ELSE "append"
                  /\ UNCHANGED <<exitCode, diag, gzPending, trailers, built>>
    /\ UNCHANGED <<inVars, outKind, outParent, createAns, loopVars, valVars, summary,
                   interrupted>>

\* construct_archive, lines 219-238: one iteration of the append loop
AppendEntry ==
    /\ pc = "append"
    /\ idx < Len(files)
    /\ LET path == files[idx + 1]
           prefix == GetInpPathOnly(inPath)
           rel == StripPrefix(path, prefix)
           e == EntryFor(path, rel)
       IN
       \E ownerOk \in OwnerOutcomes(path) :
          /\ handled' = handled \cup {path}
          /\ IF ~IsPrefix(prefix, path) \/ ~ownerOk
             THEN /\ Exit(ExitPanic, "panic: unwrap")
                  /\ DropUnfinished
                  /\ UNCHANGED <<idx, entries, contentRead>>
             ELSE IF AppendFails(path, rel)
             THEN /\ Exit(ExitFail, "append failed")
                  /\ DropUnfinished
                  /\ UNCHANGED <<idx, entries, contentRead>>
             ELSE /\ entries' = Append(entries, e)
                  /\ contentRead' = IF e.type = "regular"
                                    THEN contentRead \cup {path} ELSE contentRead
                  /\ idx' = idx + 1
                  /\ archLen' = AfterWrite(archLen, EntryBytes(e.size))
                  /\ archLead' = LeadAfter(archLen, archLead, LeadBytes(rel))
                  /\ gzPending' = compress
                  /\ pc' = IF idx + 1 = Len(files) THEN "finish" ELSE "append"
                  /\ UNCHANGED <<exitCode, diag, streamOpen, trailers, built, target>>
    /\ UNCHANGED <<inVars, outVars, uiVars, files, valVars, summary, interrupted>>

\* construct_archive, line 239: archive.finish() writes the 1024-byte trailer
Finish ==
    /\ pc = "finish"
    /\ archLen' = AfterWrite(archLen, 1024)
    /\ archLead' = LeadAfter(archLen, archLead, <<0, 0>>)
    /\ gzPending' = compress
    /\ trailers' = trailers + 1
    /\ built' = TRUE
    /\ pc' = "validate_archive"
    /\ UNCHANGED <<inVars, outVars, uiVars, loopVars, streamOpen, target, valVars,
                   exitCode, diag, summary, interrupted>>

\* validate::archive on file_path
ArchiveVerdict ==
    IF outFiles[target] # "arch" THEN "Failed to write archive"
    ELSE IF archLen = 0 THEN "No files were processed"
    ELSE IF Len(archLead) < 2 THEN "failed to fill whole buffer"
    ELSE IF archLead # GzMagic THEN "Invalid archive"
    ELSE "ok"

\* construct_archive, line 241
ValidateArchive ==
    /\ pc = "validate_archive"
    /\ valid' = ArchiveVerdict
    /\ outFiles' = IF ArchiveVerdict \in {"No files were processed", "Invalid archive"}
                   THEN [outFiles EXCEPT ![target] = "none"]
                   ELSE outFiles
    /\ lenAtValidate' = archLen
    /\ pendingAtValidate' = gzPending
    /\ pc' = "drop"
    /\ UNCHANGED <<inVars, outKind, outParent, uiVars, loopVars, archVars, exitCode,
                   diag, summary, interrupted>>

\* construct_archive, lines 241-251: the result is returned and the locals are
\* dropped; main, lines 104-113
Return ==
    /\ pc = "drop"
    /\ archLen' = IF outFiles[target] = "arch" THEN AfterGzFinish(archLen) ELSE archLen
    /\ gzPending' = FALSE
    /\ streamOpen' = FALSE
    /\ IF valid = "ok"
       THEN /\ pc' = "print_done"
            /\ UNCHANGED <<exitCode, diag>>
       ELSE Exit(ExitFail, valid)
    /\ UNCHANGED <<inVars, outVars, uiVars, loopVars, archLead, trailers, built,
                   target, valVars, summary, interrupted>>

\* print_done: metadata() of every input path is unwrapped, then exit(0)
PrintDone ==
    /\ pc = "print_done"
    /\ IF \E i \in 1..Len(files) : ~Exists(files[i])
       THEN /\ Exit(ExitPanic, "panic: metadata")
            /\ UNCHANGED summary
       ELSE /\ summary' = TRUE
            /\ pc' = "exited"
            /\ exitCode' = ExitOk
            /\ UNCHANGED diag
    /\ UNCHANGED <<inVars, outVars, uiVars, loopVars, archVars, valVars, interrupted>>

\* handle_term: the ctrl_c task, spawned at line 62, ends the process
Interrupt ==
    /\ pc \in {"walk", "name", "append", "finish", "validate_archive", "drop",
               "print_done"}
    /\ interrupted' = TRUE
    /\ Exit(ExitOk, "Terminating...")
    /\ UNCHANGED <<inVars, outVars, uiVars, loopVars, archVars, valVars, summary>>

Next ==
    \/ ValidateInput
    \/ ValidateOutput
    \/ Walk
    \/ NameCreate
    \/ AppendEntry
    \/ Finish
    \/ ValidateArchive
    \/ Return
    \/ PrintDone
    \/ Interrupt

Spec == Init /\ [][Next]_vars

\* ------------------------------------------------------------ claims
AfterOutputValidation == pc \notin {"validate_input", "validate_output"}
Finished == pc = "exited" /\ ~interrupted
\* args.src names nothing: no such path, or a link whose target is missing
InputMissing == inPath \notin DOMAIN fs \/ fs[inPath] = "sl_none"
RelToRoot(p) == [i \in 1..(Len(p) - Len(inPath)) |-> p[i + Len(inPath)]]
EntryPaths == {entries[i].path : i \in 1..Len(entries)}
OnDisk == target # -1 /\ outFiles[target] = "arch"

\* C1: with compression off, an archive with at least one entry passes
\* validate::archive, stays on disk, and the run ends with exit code 0.
C1_PlainTarValidates ==
    (~compress /\ entries # <<>> /\ valid # "none")
        => /\ valid = "ok"
           /\ OnDisk
           /\ (Finished => exitCode = ExitOk)

C3_EntriesMatchTree ==
    (built /\ inPath \in DOMAIN fs /\ fs[inPath] = "dir")
        => /\ EntryPaths =
                {RelToRoot(p) : p \in {q \in DOMAIN fs : fs[q] \notin {"dir", "xdir"}}}
           /\ Cardinality(EntryPaths) = Len(entries)
           /\ \A i \in 1..Len(entries) : entries[i].type # "directory"
C3_Witness ==
    /\ built
    /\ inPath \in DOMAIN fs /\ fs[inPath] = "dir"
    /\ \E i \in 1..Len(entries) : Len(entries[i].path) = 2
    /\ \E q \in DOMAIN fs : fs[q] = "sl_dir"

\* C4: every symlink the append loop takes up, root or nested, whatever it
\* points to, is stored exactly once as a symlink entry of size 0 with its
\* relative path and raw target; nothing below a link is enumerated and no
\* content is read through a link.
C4_SymlinksStored ==
    /\ \A p \in handled :
          IsSymlink(p) =>
             Cardinality({i \in 1..Len(entries) :
                 entries[i] = [path |-> StripPrefix(p, GetInpPathOnly(inPath)),
                               type |-> "symlink", size |-> 0,
                               link |-> ReadLink(p)]}) = 1
    /\ \A i \in 1..Len(files) : files[i] \in DOMAIN fs
    /\ \A p \in contentRead : ~IsSymlink(p)

\* C5: a build of zero entries ends with the "No files were processed" error,
\* exit code 1, and no archive left on disk.
C5_EmptyBuildFails ==
    (built /\ entries = <<>> /\ Finished)
        => /\ exitCode = ExitFail
           /\ "No files were processed" \in diag
           /\ ~OnDisk

\* C6: a run not ended by a signal exits 0 exactly when it reached Done with a
\* validated archive on disk, and 1 otherwise.
C6_ExitCodes ==
    Finished
        => /\ exitCode \in {ExitOk, ExitFail}
           /\ exitCode = ExitOk <=> (summary /\ valid = "ok" /\ OnDisk)

\* C7: a missing input ends the run at input validation: exit code 1, the
\* "does not exist" diagnostic and nothing else, no prompt, no directory or
\* archive created.
C7_MissingInput ==
    (InputMissing /\ pc # "validate_input")
        => /\ pc = "exited"
           /\ exitCode = ExitFail
           /\ diag = {"Specified file or directory does not exist"}
           /\ prompts = {}
           /\ createAns = NoLine
           /\ outKind = pre.kind
           /\ outFiles = pre.files
           /\ target = -1
C7_Witness == InputMissing /\ pc = "exited" /\ pre.kind = "absent" /\ outParent

\* C8: with an existing input and a missing output path the user is asked to
\* create it; on "n", "no", an empty line or end of input the run fails with
\* "Output directory does not exist" and exit code 1 before anything is
\* enumerated or built, and the filesystem is as it was.
C8_DeclinedCreate ==
    (~InputMissing /\ pre.kind = "absent" /\ AfterOutputValidation)
        => /\ "create" \in prompts
           /\ createAns \in {<<"n", "\n">>, <<"n", "o", "\n">>, <<"\n">>, <<>>}
                 => /\ pc = "exited"
                    /\ exitCode = ExitFail
                    /\ "Output directory does not exist" \in diag
                    /\ outKind = "absent"
                    /\ outFiles = pre.files
                    /\ files = <<>>
                    /\ entries = <<>>
                    /\ target = -1
C8_Witness ==
    /\ ~InputMissing /\ pre.kind = "absent" /\ outParent
    /\ createAns = <<>> /\ pc = "exited" /\ exitCode = ExitFail

\* C9: an output path that does not exist but whose parent does is accepted as
\* a target file name: no prompt, no directory created, the run goes on.
C9_FileTargetAccepted ==
    (~InputMissing /\ pre.kind = "absent" /\ outParent /\ AfterOutputValidation)
        => /\ prompts = {}
           /\ outKind = "absent"
           /\ "Output directory does not exist" \notin diag

\* C10: the archive is finalized once and before validation: when
\* validate::archive runs the trailer is written and the encoder holds nothing
\* back, and the file on disk never changes afterwards.
C10_FinalizedBeforeValidation ==
    valid # "none"
        => /\ trailers = 1
           /\ ~pendingAtValidate
           /\ OnDisk => archLen = lenAtValidate

====
